---- MODULE Spec2Model ----
(***************************************************************************)
(* Model of main.py: the Snowflake resource declaration layer.             *)
(*                                                                         *)
(* The module body of main.py binds a configuration value, defines eleven  *)
(* constructor functions and ends with six pulumi.export statements.  Each *)
(* constructor builds one provider resource (which registers a declaration *)
(* with the engine) and returns its handle.                                *)
(*                                                                         *)
(* Values.  Optional[T] is the empty tuple (None) or a one-element tuple.  *)
(* A pulumi.Input[str] is a record: a plain string, the not yet resolved   *)
(* output attribute of a resource, or a deferred concatenation.  Keyword   *)
(* arguments are a function from the keywords the caller passed to their   *)
(* values; Python's argument binding supplies the default of the others.   *)
(***************************************************************************)
EXTENDS Integers, Sequences, FiniteSets, TLC

VARIABLES
    cfg,        \* the stack's "environment" setting, as config.get returns it
    pc,         \* index in Program of the next module-level statement
    globals,    \* the module namespace: bound name -> value
    exports,    \* published output bindings: key -> exported value
    error,      \* the exception that ended the module body, or None
    calls,      \* history of constructor calls: arguments, return, exception
    registry    \* the engine's registry: declarations in registration order

vars == <<cfg, pc, globals, exports, error, calls, registry>>

-----------------------------------------------------------------------------
(* Python values *)

None == << >>
Some(v) == <<v>>

\* Truthiness of an Optional[str]: None and "" are falsy.
Truthy(o) == o # None /\ o[1] # ""

\* `a or b` for an Optional[str] a and a str b.
Or(a, b) == IF Truthy(a) THEN a[1] ELSE b

\* No keyword passed.
NoKw == << >>

\* Argument binding: the passed value, else the default of the signature.
Bind(kw, p, default) == IF p \in DOMAIN kw THEN kw[p] ELSE default

\* Keyword sets joined (the keywords of f and of g are disjoint).
Merge(f, g) ==
    [p \in DOMAIN f \cup DOMAIN g |-> IF p \in DOMAIN f THEN f[p] ELSE g[p]]

\* dict.get(key, default) on a column mapping.
Get(d, key, default) == IF key \in DOMAIN d THEN d[key] ELSE default

-----------------------------------------------------------------------------
(* pulumi.Input[str] and deferred values *)

Lit(s) == [kind |-> "str", v |-> s]
OutputOf(res, attr) == [kind |-> "output", of |-> res, attr |-> attr]

\* pulumi.Output.concat(*parts): a deferred join, nothing is read now.
Output_concat(parts) == [kind |-> "concat", parts |-> parts]

\* The values the provider may report for an output once the plan is applied.
ApplyNames == {"DB", "PUBLIC", "DB_7F3A"}
LateBound == {OutputOf("example_db", "name"), OutputOf("example_schema", "name")}
Resolutions == [LateBound -> ApplyNames]

\* The string a deferred value resolves to under the resolution rho.
RECURSIVE Resolve(_, _)
Resolve(v, rho) ==
    CASE v.kind = "str" -> v.v
      [] v.kind = "output" -> rho[v]
      [] v.kind = "concat" ->
            IF v.parts = << >> THEN ""
            ELSE Resolve(Head(v.parts), rho)
                 \o Resolve(Output_concat(Tail(v.parts)), rho)

-----------------------------------------------------------------------------
(* The module body of main.py, statement by statement *)

Import(line, names) ==
    [line |-> line, kind |-> "import", binds |-> names, reads |-> {}]
Def(line, fn, reads) ==
    [line |-> line, kind |-> "def", binds |-> {fn}, reads |-> reads]
Export(line, key, var) ==
    [line |-> line, kind |-> "export", binds |-> {}, reads |-> {"pulumi", var},
     key |-> key, var |-> var]

\* A def statement evaluates its annotations, so it reads the names in them.
Program ==
    << Import(6, {"pulumi"}),
       Import(7, {"snowflake"}),
       Import(8, {"List", "Dict", "Optional"}),
       [line |-> 11, kind |-> "config", binds |-> {"config"}, reads |-> {"pulumi"}],
       [line |-> 12, kind |-> "environment", binds |-> {"environment"},
        reads |-> {"config"}],
       Def(18, "create_user", {"Optional", "snowflake"}),
       Def(59, "create_role", {"Optional", "snowflake"}),
       Def(72, "grant_role_to_user", {"pulumi", "snowflake"}),
       Def(89, "create_warehouse", {"snowflake"}),
       Def(127, "create_database", {"Optional", "snowflake"}),
       Def(152, "create_schema", {"pulumi", "Optional", "snowflake"}),
       Def(185, "create_table", {"pulumi", "List", "Dict", "Optional", "snowflake"}),
       Def(237, "grant_database_usage", {"pulumi", "snowflake"}),
       Def(254, "grant_schema_usage", {"pulumi", "snowflake"}),
       Def(271, "grant_table_select", {"pulumi", "snowflake"}),
       Def(293, "grant_warehouse_usage", {"pulumi", "snowflake"}),
       Export(313, "warehouse", "example_wh"),
       Export(314, "database", "example_db"),
       Export(315, "schema", "example_schema"),
       Export(316, "table", "example_table"),
       Export(317, "user", "example_user"),
       Export(318, "role", "example_role") >>

\* Variant: only an unset setting falls back to "dev", as config.get with a
\* default would do; an empty setting is kept.
BoundValue_unset_only(stmt, c) ==
    CASE stmt.kind = "import" -> "module"
      [] stmt.kind = "config" -> "Config"
      [] stmt.kind = "environment" -> IF c = None THEN "dev" ELSE c[1]
      [] stmt.kind = "def" -> "function"
      [] OTHER -> "unbound"

\* The value a statement binds to the names it binds.
BoundValue(stmt, c) ==
    CASE stmt.kind = "import" -> "module"
      [] stmt.kind = "config" -> "Config"
      [] stmt.kind = "environment" -> Or(c, "dev")
      [] stmt.kind = "def" -> "function"
      [] OTHER -> "unbound"

\* The namespace after stmt has run in namespace g.
Binding(g, stmt, c) == Merge([n \in stmt.binds |-> BoundValue(stmt, c)], g)

\* The namespace after the first n statements.
RECURSIVE NamespaceAfter(_, _)
NamespaceAfter(n, c) ==
    IF n = 0 THEN << >> ELSE Binding(NamespaceAfter(n - 1, c), Program[n], c)

\* Index of the first statement after the function definitions.
AfterDefs == 1 + Cardinality({i \in DOMAIN Program : Program[i].kind # "export"})

Running == error = None /\ pc \in DOMAIN Program
Terminated == ~Running

\* A name that is read and bound nowhere raises NameError and ends the run.
Defined(stmt) == stmt.reads \subseteq DOMAIN globals

Raise(exc) ==
    /\ error' = Some(exc)
    /\ UNCHANGED <<cfg, pc, globals, exports, calls, registry>>

Bindings(stmt) ==
    /\ globals' = Binding(globals, stmt, cfg)
    /\ pc' = pc + 1
    /\ UNCHANGED <<cfg, exports, error, calls, registry>>

ImportStmt ==
    /\ Running /\ Program[pc].kind = "import"
    /\ Bindings(Program[pc])

ConfigStmt ==
    /\ Running /\ Program[pc].kind = "config"
    /\ IF Defined(Program[pc]) THEN Bindings(Program[pc]) ELSE Raise("NameError")

EnvironmentStmt ==
    /\ Running /\ Program[pc].kind = "environment"
    /\ IF Defined(Program[pc]) THEN Bindings(Program[pc]) ELSE Raise("NameError")

DefStmt ==
    /\ Running /\ Program[pc].kind = "def"
    /\ IF Defined(Program[pc]) THEN Bindings(Program[pc]) ELSE Raise("NameError")

\* pulumi.export(key, var.name)
ExportStmt ==
    /\ Running /\ Program[pc].kind = "export"
    /\ IF Defined(Program[pc])
       THEN /\ exports' = Merge([k \in {Program[pc].key} |->
                                   OutputOf(globals[Program[pc].var], "name")],
                                exports)
            /\ pc' = pc + 1
            /\ UNCHANGED <<cfg, globals, error, calls, registry>>
       ELSE Raise("NameError")

\* The settings a stack may hold for "environment" (None: not configured).
EnvSettings ==
    {None, Some(""), Some("dev"), Some("prod"), Some("staging"), Some("test")}

InitMain ==
    /\ cfg \in EnvSettings
    /\ pc = 1
    /\ globals = << >>
    /\ exports = << >>
    /\ error = None
    /\ calls = << >>
    /\ registry = << >>

NextMain == ImportStmt \/ ConfigStmt \/ EnvironmentStmt \/ DefStmt \/ ExportStmt

SpecMain == InitMain /\ [][NextMain]_vars

-----------------------------------------------------------------------------
(* The constructors *)

\* The module global bound at line 12.
environment == globals["environment"]

\* f"Managed by Pulumi - {environment}"
Stamp == "Managed by Pulumi - " \o environment

\* A provider resource: constructing it registers the declaration with the
\* engine under its identifier, and the object is the handle.
Resource(type, id, props) == [type |-> type, id |-> id, props |-> props]

\* What a call does: the declarations it registers, what it returns (None
\* when the function body ends without a return) and what it raises.
Returns(decl) == [registered |-> <<decl>>, ret |-> Some(decl), raised |-> None]
FallsOff == [registered |-> << >>, ret |-> None, raised |-> None]

create_user(name, login_name, email, kw) ==
    Returns(Resource("snowflake.User", name,
        [name |-> login_name,
         login_name |-> login_name,
         email |-> email,
         default_role |-> Bind(kw, "default_role", None),
         default_warehouse |-> Bind(kw, "default_warehouse", None),
         default_namespace |-> Bind(kw, "default_namespace", None),
         must_change_password |-> Bind(kw, "must_change_password", TRUE),
         disabled |-> Bind(kw, "disabled", FALSE),
         comment |-> Stamp]))

create_role(name, kw) ==
    Returns(Resource("snowflake.Role", name,
        [name |-> name,
         comment |-> Or(Bind(kw, "comment", None), Stamp)]))

grant_role_to_user(name, role_name, user_name) ==
    Returns(Resource("snowflake.RoleGrants", name,
        [role_name |-> role_name,
         users |-> <<user_name>>]))

\* Variant: the auto-suspend default of another template.
create_warehouse_suspend60(name, kw) ==
    Returns(Resource("snowflake.Warehouse", name,
        [name |-> name,
         warehouse_size |-> Bind(kw, "warehouse_size", "SMALL"),
         auto_suspend |-> Bind(kw, "auto_suspend", 60),
         auto_resume |-> Bind(kw, "auto_resume", TRUE),
         initially_suspended |-> Bind(kw, "initially_suspended", TRUE),
         max_cluster_count |-> Bind(kw, "max_cluster_count", 1),
         min_cluster_count |-> Bind(kw, "min_cluster_count", 1),
         comment |-> Stamp]))

\* Variant: a local range check that rejects min_cluster_count > max_cluster_count.
create_warehouse_validating(name, kw) ==
    IF Bind(kw, "min_cluster_count", 1) > Bind(kw, "max_cluster_count", 1)
    THEN [registered |-> << >>, ret |-> None, raised |-> Some("ValueError")]
    ELSE Returns(Resource("snowflake.Warehouse", name,
        [name |-> name,
         warehouse_size |-> Bind(kw, "warehouse_size", "SMALL"),
         auto_suspend |-> Bind(kw, "auto_suspend", 300),
         auto_resume |-> Bind(kw, "auto_resume", TRUE),
         initially_suspended |-> Bind(kw, "initially_suspended", TRUE),
         max_cluster_count |-> Bind(kw, "max_cluster_count", 1),
         min_cluster_count |-> Bind(kw, "min_cluster_count", 1),
         comment |-> Stamp]))

create_warehouse(name, kw) ==
    Returns(Resource("snowflake.Warehouse", name,
        [name |-> name,
         warehouse_size |-> Bind(kw, "warehouse_size", "SMALL"),
         auto_suspend |-> Bind(kw, "auto_suspend", 300),
         auto_resume |-> Bind(kw, "auto_resume", TRUE),
         initially_suspended |-> Bind(kw, "initially_suspended", TRUE),
         max_cluster_count |-> Bind(kw, "max_cluster_count", 1),
         min_cluster_count |-> Bind(kw, "min_cluster_count", 1),
         comment |-> Stamp]))

create_database(name, kw) ==
    Returns(Resource("snowflake.Database", name,
        [name |-> name,
         comment |-> Or(Bind(kw, "comment", None), Stamp),
         data_retention_time_in_days |->
             Bind(kw, "data_retention_time_in_days", 1)]))

\* Variant: the comment falls back to the stamp only when it is None.
create_schema_isnone(name, database, schema_name, kw) ==
    Returns(Resource("snowflake.Schema", name,
        [database |-> database,
         name |-> schema_name,
         comment |-> IF Bind(kw, "comment", None) # None
                     THEN Bind(kw, "comment", None)[1] ELSE Stamp,
         data_retention_days |-> Bind(kw, "data_retention_days", None),
         is_managed |-> Bind(kw, "is_managed", FALSE)]))

create_schema(name, database, schema_name, kw) ==
    Returns(Resource("snowflake.Schema", name,
        [database |-> database,
         name |-> schema_name,
         comment |-> Or(Bind(kw, "comment", None), Stamp),
         data_retention_days |-> Bind(kw, "data_retention_days", None),
         is_managed |-> Bind(kw, "is_managed", FALSE)]))

\* Variant: the nullable string compared without regard to case.
TableColumnArgs_caseless(col) ==
    [name |-> col["name"],
     type |-> col["type"],
     nullable |-> (Get(col, "nullable", "true") \in {"true", "True", "TRUE"})]

\* snowflake.TableColumnArgs(name=..., type=..., nullable=...) for one column.
TableColumnArgs(col) ==
    [name |-> col["name"],
     type |-> col["type"],
     nullable |-> (Get(col, "nullable", "true") = "true")]

\* The list comprehension over the input columns.
column_specs(columns) == [i \in 1..Len(columns) |-> TableColumnArgs(columns[i])]

create_table(name, database, schema, table_name, columns, kw) ==
    Returns(Resource("snowflake.Table", name,
        [database |-> database,
         schema |-> schema,
         name |-> table_name,
         columns |-> column_specs(columns),
         comment |-> Or(Bind(kw, "comment", None), Stamp),
         cluster_bys |-> Bind(kw, "cluster_by", None)]))

grant_database_usage(name, database_name, role) ==
    Returns(Resource("snowflake.GrantPrivilegesToAccountRole", name,
        [account_role_name |-> role,
         privileges |-> <<"USAGE">>,
         on_account_object |->
             [object_type |-> "DATABASE", object_name |-> database_name]]))

\* Variant: the separator left out of the join.
grant_schema_usage_nodot(name, database_name, schema_name, role) ==
    Returns(Resource("snowflake.GrantPrivilegesToAccountRole", name,
        [account_role_name |-> role,
         privileges |-> <<"USAGE">>,
         on_schema |->
             [schema_name |-> Output_concat(<<database_name, schema_name>>)]]))

grant_schema_usage(name, database_name, schema_name, role) ==
    Returns(Resource("snowflake.GrantPrivilegesToAccountRole", name,
        [account_role_name |-> role,
         privileges |-> <<"USAGE">>,
         on_schema |->
             [schema_name |->
                  Output_concat(<<database_name, Lit("."), schema_name>>)]]))

grant_table_select(name, database_name, schema_name, role, kw) ==
    IF Bind(kw, "all_tables", TRUE)
    THEN Returns(Resource("snowflake.GrantPrivilegesToAccountRole", name,
             [account_role_name |-> role,
              privileges |-> <<"SELECT">>,
              on_schema_object |->
                  [all |->
                       [object_type_plural |-> "TABLES",
                        in_schema |->
                            Output_concat(
                                <<database_name, Lit("."), schema_name>>)]]]))
    ELSE FallsOff

\* Variant: a second privilege granted with USAGE.
grant_warehouse_usage_operate(name, warehouse_name, role) ==
    Returns(Resource("snowflake.GrantPrivilegesToAccountRole", name,
        [account_role_name |-> role,
         privileges |-> <<"USAGE", "OPERATE">>,
         on_account_object |->
             [object_type |-> "WAREHOUSE", object_name |-> warehouse_name]]))

grant_warehouse_usage(name, warehouse_name, role) ==
    Returns(Resource("snowflake.GrantPrivilegesToAccountRole", name,
        [account_role_name |-> role,
         privileges |-> <<"USAGE">>,
         on_account_object |->
             [object_type |-> "WAREHOUSE", object_name |-> warehouse_name]]))

-----------------------------------------------------------------------------
(* Calls of the constructors by a program that has run the definitions *)

\* One call: its record joins the history, its declarations the registry.
Invoke(fn, id, args, result) ==
    /\ calls' = Append(calls, [fn |-> fn, id |-> id, args |-> args,
                               ret |-> result.ret, raised |-> result.raised])
    /\ registry' = registry \o result.registered
    /\ UNCHANGED <<cfg, pc, globals, exports, error>>

CallCreateUser(ready, I) ==
    /\ ready /\ "create_user" \in DOMAIN globals
    /\ \E name \in I.ids, login_name \in I.login_names, email \in I.emails,
          kw \in I.user_kw :
         Invoke("create_user", name,
                [login_name |-> login_name, email |-> email, kw |-> kw],
                create_user(name, login_name, email, kw))

CallCreateRole(ready, I) ==
    /\ ready /\ "create_role" \in DOMAIN globals
    /\ \E name \in I.ids, kw \in I.role_kw :
         Invoke("create_role", name, [kw |-> kw], create_role(name, kw))

CallGrantRoleToUser(ready, I) ==
    /\ ready /\ "grant_role_to_user" \in DOMAIN globals
    /\ \E name \in I.ids, role_name \in I.roles, user_name \in I.users :
         Invoke("grant_role_to_user", name,
                [role_name |-> role_name, user_name |-> user_name],
                grant_role_to_user(name, role_name, user_name))

CallCreateWarehouse(ready, I) ==
    /\ ready /\ "create_warehouse" \in DOMAIN globals
    /\ \E name \in I.ids, kw \in I.warehouse_kw :
         Invoke("create_warehouse", name, [kw |-> kw], create_warehouse(name, kw))

CallCreateDatabase(ready, I) ==
    /\ ready /\ "create_database" \in DOMAIN globals
    /\ \E name \in I.ids, kw \in I.database_kw :
         Invoke("create_database", name, [kw |-> kw], create_database(name, kw))

CallCreateSchema(ready, I) ==
    /\ ready /\ "create_schema" \in DOMAIN globals
    /\ \E name \in I.ids, database \in I.databases,
          schema_name \in I.schema_names, kw \in I.schema_kw :
         Invoke("create_schema", name,
                [database |-> database, schema_name |-> schema_name, kw |-> kw],
                create_schema(name, database, schema_name, kw))

CallCreateTable(ready, I) ==
    /\ ready /\ "create_table" \in DOMAIN globals
    /\ \E name \in I.table_ids, database \in I.table_databases,
          schema \in I.table_schemas, table_name \in I.table_names,
          columns \in I.column_lists, kw \in I.table_kw :
         Invoke("create_table", name,
                [database |-> database, schema |-> schema,
                 table_name |-> table_name, columns |-> columns, kw |-> kw],
                create_table(name, database, schema, table_name, columns, kw))

CallGrantDatabaseUsage(ready, I) ==
    /\ ready /\ "grant_database_usage" \in DOMAIN globals
    /\ \E name \in I.ids, database_name \in I.databases, role \in I.roles :
         Invoke("grant_database_usage", name,
                [database_name |-> database_name, role |-> role],
                grant_database_usage(name, database_name, role))

CallGrantSchemaUsage(ready, I) ==
    /\ ready /\ "grant_schema_usage" \in DOMAIN globals
    /\ \E name \in I.ids, database_name \in I.databases,
          schema_name \in I.schemas, role \in I.roles :
         Invoke("grant_schema_usage", name,
                [database_name |-> database_name, schema_name |-> schema_name,
                 role |-> role],
                grant_schema_usage(name, database_name, schema_name, role))

CallGrantTableSelect(ready, I) ==
    /\ ready /\ "grant_table_select" \in DOMAIN globals
    /\ \E name \in I.ids, database_name \in I.databases,
          schema_name \in I.schemas, role \in I.roles, kw \in I.select_kw :
         Invoke("grant_table_select", name,
                [database_name |-> database_name, schema_name |-> schema_name,
                 role |-> role, kw |-> kw],
                grant_table_select(name, database_name, schema_name, role, kw))

CallGrantWarehouseUsage(ready, I) ==
    /\ ready /\ "grant_warehouse_usage" \in DOMAIN globals
    /\ \E name \in I.ids, warehouse_name \in I.warehouses, role \in I.roles :
         Invoke("grant_warehouse_usage", name,
                [warehouse_name |-> warehouse_name, role |-> role],
                grant_warehouse_usage(name, warehouse_name, role))

\* The state once lines 1-307 have run: the setting read, the functions bound.
InitCalls ==
    /\ cfg \in EnvSettings
    /\ pc = AfterDefs
    /\ globals = NamespaceAfter(AfterDefs - 1, cfg)
    /\ exports = << >>
    /\ error = None
    /\ calls = << >>
    /\ registry = << >>

-----------------------------------------------------------------------------
(* Inputs *)

\* Longest column list of a create_table call.
MaxCols == 2
\* Longest sequence of constructor calls of one run in SpecSeq.
MaxCalls == 3

\* Keyword p passed with a value of V, or not passed.
Opt(p, V) == {NoKw} \cup {[q \in {p} |-> v] : v \in V}

\* Sequences over S of length at most n.
SeqUpTo(S, n) == UNION {[1..k -> S] : k \in 0..n}

Comments == {None, Some(""), Some("Raw event data")}

\* Column mappings: nullable absent, well formed, or malformed.
IdColumn == [name |-> "ID", type |-> "NUMBER(38,0)"]
Columns ==
    {[name |-> "NAME", type |-> "VARCHAR(100)"], IdColumn}
    \cup {Merge(IdColumn, [nullable |-> n]) :
            n \in {"true", "false", "True", "TRUE", " true", "ture"}}

Inputs ==
    [ids |-> {"ANALYTICS_WH", "res_b"},
     login_names |-> {"JDOE"},
     emails |-> {"jdoe@example.com"},
     user_kw |->
        {Merge(a, Merge(b, Merge(c, Merge(d, e)))) :
            a \in Opt("default_role", {None, Some("ANALYST")}),
            b \in Opt("default_warehouse", {Some("ANALYTICS_WH")}),
            c \in Opt("default_namespace", {Some("DB.PUBLIC")}),
            d \in Opt("must_change_password", {FALSE}),
            e \in Opt("disabled", {TRUE})},
     role_kw |-> Opt("comment", Comments),
     roles |-> {Lit("ANALYST"), OutputOf("example_role", "name")},
     users |-> {Lit("JDOE"), OutputOf("example_user", "name")},
     warehouse_kw |->
        {Merge(a, Merge(b, Merge(c, Merge(d, Merge(e, f))))) :
            a \in Opt("warehouse_size", {"X-LARGE", "GIGANTIC"}),
            b \in Opt("auto_suspend", {-60}),
            c \in Opt("auto_resume", {FALSE}),
            d \in Opt("initially_suspended", {FALSE}),
            e \in Opt("max_cluster_count", {-1, 2}),
            f \in Opt("min_cluster_count", {0, 5})},
     database_kw |->
        {Merge(a, b) :
            a \in Opt("comment", Comments),
            b \in Opt("data_retention_time_in_days", {-1, 90})},
     databases |-> {Lit("DB"), OutputOf("example_db", "name")},
     schemas |-> {Lit("PUBLIC"), OutputOf("example_schema", "name")},
     schema_names |-> {"PUBLIC"},
     schema_kw |->
        {Merge(a, Merge(b, c)) :
            a \in Opt("comment", Comments),
            b \in Opt("data_retention_days", {None, Some(-3), Some(14)}),
            c \in Opt("is_managed", {TRUE})},
     table_ids |-> {"events"},
     table_databases |-> {Lit("DB"), OutputOf("example_db", "name")},
     table_schemas |-> {OutputOf("example_schema", "name")},
     table_names |-> {"EVENTS"},
     column_lists |-> SeqUpTo(Columns, MaxCols),
     table_kw |->
        {Merge(a, b) :
            a \in Opt("comment", Comments),
            b \in Opt("cluster_by",
                      {None, Some(<<"ID">>), Some(<<"NOT_A_COLUMN">>)})},
     select_kw |-> Opt("all_tables", {TRUE, FALSE}),
     warehouses |-> {Lit("ANALYTICS_WH"), OutputOf("example_wh", "name")}]

\* A run that makes one constructor call.
Fresh == calls = << >>

Next ==
    \/ CallCreateUser(Fresh, Inputs)
    \/ CallCreateRole(Fresh, Inputs)
    \/ CallGrantRoleToUser(Fresh, Inputs)
    \/ CallCreateWarehouse(Fresh, Inputs)
    \/ CallCreateDatabase(Fresh, Inputs)
    \/ CallCreateSchema(Fresh, Inputs)
    \/ CallCreateTable(Fresh, Inputs)
    \/ CallGrantDatabaseUsage(Fresh, Inputs)
    \/ CallGrantSchemaUsage(Fresh, Inputs)
    \/ CallGrantTableSelect(Fresh, Inputs)
    \/ CallGrantWarehouseUsage(Fresh, Inputs)

Spec == InitCalls /\ [][Next]_vars

\* Few inputs per constructor, for runs of several calls.
SeqInputs ==
    [ids |-> {"r1", "r2", "r3"},
     login_names |-> {"JDOE"},
     emails |-> {"jdoe@example.com"},
     user_kw |-> {NoKw},
     role_kw |-> {NoKw, [comment |-> Some("Read-only analysts")]},
     roles |-> {OutputOf("r1", "name")},
     users |-> {OutputOf("r2", "name")},
     warehouse_kw |-> {NoKw},
     database_kw |-> {NoKw},
     databases |-> {Lit("DB")},
     schemas |-> {Lit("PUBLIC")},
     schema_names |-> {"PUBLIC"},
     schema_kw |-> {NoKw},
     table_ids |-> {"r1", "r2", "r3"},
     table_databases |-> {Lit("DB")},
     table_schemas |-> {Lit("PUBLIC")},
     table_names |-> {"EVENTS"},
     column_lists |-> {<<IdColumn>>},
     table_kw |-> {NoKw},
     select_kw |-> {NoKw, [all_tables |-> FALSE]},
     warehouses |-> {Lit("ANALYTICS_WH")}]

More == Len(calls) < MaxCalls

NextSeq ==
    \/ CallCreateUser(More, SeqInputs)
    \/ CallCreateRole(More, SeqInputs)
    \/ CallGrantRoleToUser(More, SeqInputs)
    \/ CallCreateWarehouse(More, SeqInputs)
    \/ CallCreateDatabase(More, SeqInputs)
    \/ CallCreateSchema(More, SeqInputs)
    \/ CallCreateTable(More, SeqInputs)
    \/ CallGrantDatabaseUsage(More, SeqInputs)
    \/ CallGrantSchemaUsage(More, SeqInputs)
    \/ CallGrantTableSelect(More, SeqInputs)
    \/ CallGrantWarehouseUsage(More, SeqInputs)

SpecSeq == InitCalls /\ [][NextSeq]_vars

-----------------------------------------------------------------------------
(* Properties *)

\* The calls of the history made to one of the functions of F.
CallsOf(F) == {i \in DOMAIN calls : calls[i].fn \in F}

\* The declaration a call returned (for a call that returned one).
DeclOf(i) == calls[i].ret[1]

\* The comment argument of a call, None when it was not passed.
CommentArg(i) == Bind(calls[i].args.kw, "comment", None)

TakesComment == {"create_role", "create_database", "create_schema", "create_table"}
AlwaysStamped == {"create_user", "create_warehouse"}

\* grant_table_select was called with all_tables=False.
SelectNotAll(i) ==
    /\ calls[i].fn = "grant_table_select"
    /\ ~Bind(calls[i].args.kw, "all_tables", TRUE)

(* C1: grant_table_select with all_tables=False signals an unsupported-     *)
(* operation error to the caller, does not return None normally, and       *)
(* registers no declaration.                                               *)
C1_UnsupportedIsSignalled ==
    \A i \in DOMAIN calls :
        SelectNotAll(i) =>
            /\ calls[i].raised = Some("NotImplementedError")
            /\ registry = << >>

(* C2: a run of main.py from start to end finishes with the six output     *)
(* bindings published, each bound to the name attribute of a resource      *)
(* declared earlier in the run.                                            *)
ExportKeys == {"warehouse", "database", "schema", "table", "user", "role"}
C2_RunPublishesSixExports ==
    Terminated =>
        /\ error = None
        /\ DOMAIN exports = ExportKeys
        /\ \A k \in DOMAIN exports :
               /\ exports[k].attr = "name"
               /\ \E j \in DOMAIN registry : registry[j] = exports[k].of

(* C3: the i-th column descriptor of a Table declaration has the name and  *)
(* type of the i-th input column and is nullable iff that column's         *)
(* nullable field is absent or is exactly "true"; same length, same order. *)
C3_ColumnsNullableIffTrue ==
    \A i \in CallsOf({"create_table"}) :
        LET given == calls[i].args.columns
            specs == DeclOf(i).props.columns
        IN /\ calls[i].ret # None
           /\ Len(specs) = Len(given)
           /\ \A j \in 1..Len(given) :
                  /\ specs[j].name = given[j]["name"]
                  /\ specs[j].type = given[j]["type"]
                  /\ specs[j].nullable <=>
                        (\/ "nullable" \notin DOMAIN given[j]
                         \/ given[j]["nullable"] = "true")

C3_Witness ==
    \E i \in CallsOf({"create_table"}) :
        /\ Len(calls[i].args.columns) = 2
        /\ calls[i].args.columns[1] = Merge(IdColumn, [nullable |-> "True"])
        /\ "nullable" \notin DOMAIN calls[i].args.columns[2]
        /\ ~DeclOf(i).props.columns[1].nullable
        /\ DeclOf(i).props.columns[2].nullable
        /\ DeclOf(i).props.columns[2].name = "NAME"

(* C4: every declaration produced by a grant constructor requests exactly  *)
(* one fixed privilege: USAGE on a DATABASE, on a schema or on a           *)
(* WAREHOUSE, and SELECT on all TABLES of a schema, whatever the inputs.   *)
C4_GrantPrivilegeFixed ==
    \A i \in DOMAIN calls :
        calls[i].ret # None =>
            LET p == DeclOf(i).props IN
            /\ calls[i].fn = "grant_database_usage" =>
                  /\ p.privileges = <<"USAGE">>
                  /\ p.on_account_object.object_type = "DATABASE"
            /\ calls[i].fn = "grant_schema_usage" =>
                  /\ p.privileges = <<"USAGE">>
                  /\ "on_schema" \in DOMAIN p
            /\ calls[i].fn = "grant_warehouse_usage" =>
                  /\ p.privileges = <<"USAGE">>
                  /\ p.on_account_object.object_type = "WAREHOUSE"
            /\ calls[i].fn = "grant_table_select" =>
                  /\ p.privileges = <<"SELECT">>
                  /\ p.on_schema_object.all.object_type_plural = "TABLES"

C4_Witness ==
    \E i \in CallsOf({"grant_warehouse_usage"}) :
        /\ calls[i].args.role = OutputOf("example_role", "name")
        /\ calls[i].args.warehouse_name = Lit("ANALYTICS_WH")
        /\ DeclOf(i) \in {registry[j] : j \in DOMAIN registry}
        /\ DeclOf(i).props.privileges = <<"USAGE">>

\* A call that lacks an explicit comment.
LacksComment(i) ==
    \/ calls[i].fn \in AlwaysStamped
    \/ calls[i].fn \in TakesComment /\ "comment" \notin DOMAIN calls[i].args.kw

(* C5 as stated: a constructor lacking an explicit comment yields the      *)
(* comment "Managed by Pulumi - " followed by the configured environment   *)
(* setting, "dev" when the setting is not configured.                      *)
C5_StampIsConfiguredSetting ==
    \A i \in DOMAIN calls :
        LacksComment(i) =>
            DeclOf(i).props.comment =
                "Managed by Pulumi - " \o (IF cfg = None THEN "dev" ELSE cfg[1])

(* C5 as amended: a constructor lacking an explicit comment yields the     *)
(* comment "Managed by Pulumi - " followed by the configured environment   *)
(* setting, or by "dev" when the setting is not configured or is the       *)
(* empty string.                                                           *)
C5_StampIsNonEmptySettingOrDev ==
    \A i \in DOMAIN calls :
        LacksComment(i) =>
            /\ calls[i].ret # None
            /\ DeclOf(i).props.comment =
                  "Managed by Pulumi - "
                  \o (IF cfg = None \/ cfg = Some("") THEN "dev" ELSE cfg[1])

C5_Witness ==
    /\ cfg = Some("prod")
    /\ \E i \in CallsOf({"create_database"}) :
          /\ calls[i].args.kw = [data_retention_time_in_days |-> 90]
          /\ DeclOf(i).props.comment = "Managed by Pulumi - prod"

\* No two calls of the history share an identifier.
DistinctIds ==
    \A i, j \in DOMAIN calls : i # j => calls[i].id # calls[j].id

(* C6: after n constructor calls with pairwise distinct identifiers the    *)
(* registry holds exactly n declarations, one under each identifier, and   *)
(* the handle each call returned is the declaration registered under its   *)
(* identifier.                                                             *)
C6_OneDeclarationPerCall ==
    DistinctIds =>
        /\ Len(registry) = Len(calls)
        /\ \A i \in DOMAIN calls :
               /\ registry[i].id = calls[i].id
               /\ calls[i].ret = Some(registry[i])

(* C7: once both operands are resolved, the schema target of a             *)
(* grant_schema_usage declaration, and the in_schema target of a           *)
(* grant_table_select declaration, is the database name, a single ".",     *)
(* and the schema name, also when an operand is resolved only on apply.    *)
C7_SchemaTargetIsDottedJoin ==
    \A i \in CallsOf({"grant_schema_usage", "grant_table_select"}) :
        calls[i].ret # None =>
            LET target ==
                    IF calls[i].fn = "grant_schema_usage"
                    THEN DeclOf(i).props.on_schema.schema_name
                    ELSE DeclOf(i).props.on_schema_object.all.in_schema
            IN \A rho \in Resolutions :
                   Resolve(target, rho) =
                       Resolve(calls[i].args.database_name, rho)
                       \o "." \o Resolve(calls[i].args.schema_name, rho)

C7_Witness ==
    \E i \in CallsOf({"grant_schema_usage"}) :
        /\ calls[i].args.database_name = OutputOf("example_db", "name")
        /\ calls[i].args.schema_name = Lit("PUBLIC")
        /\ \E rho \in Resolutions :
              /\ rho[OutputOf("example_db", "name")] = "DB"
              /\ Resolve(DeclOf(i).props.on_schema.schema_name, rho) = "DB.PUBLIC"

(* C8: a warehouse declared with only a name has that name as identifier   *)
(* and name, size SMALL, auto_suspend 300, auto_resume and                 *)
(* initially_suspended true, and min and max cluster count 1.              *)
C8_WarehouseDefaults ==
    \A i \in CallsOf({"create_warehouse"}) :
        calls[i].args.kw = NoKw =>
            /\ calls[i].ret # None
            /\ DeclOf(i).type = "snowflake.Warehouse"
            /\ DeclOf(i).id = calls[i].id
            /\ DeclOf(i).props.name = calls[i].id
            /\ DeclOf(i).props.warehouse_size = "SMALL"
            /\ DeclOf(i).props.auto_suspend = 300
            /\ DeclOf(i).props.auto_resume = TRUE
            /\ DeclOf(i).props.initially_suspended = TRUE
            /\ DeclOf(i).props.min_cluster_count = 1
            /\ DeclOf(i).props.max_cluster_count = 1

C8_Witness ==
    \E i \in CallsOf({"create_warehouse"}) :
        /\ calls[i].id = "ANALYTICS_WH"
        /\ calls[i].args.kw = NoKw
        /\ registry = <<DeclOf(i)>>
        /\ DeclOf(i).props.name = "ANALYTICS_WH"

\* The declaration of call i is in the registry under the call's identifier.
Registered(i) ==
    /\ calls[i].ret # None
    /\ DeclOf(i).id = calls[i].id
    /\ \E j \in DOMAIN registry : registry[j] = DeclOf(i)

\* Every keyword of K that was passed is carried under the same name.
KeywordsCarried(i, K) ==
    \A p \in DOMAIN calls[i].args.kw \cap K :
        DeclOf(i).props[p] = calls[i].args.kw[p]

\* The arguments other than comments and nullable strings are in the
\* declaration as they were given.
PlainCarried(i) ==
    LET a == calls[i].args
        p == DeclOf(i).props
    IN CASE calls[i].fn = "create_user" ->
              /\ p.name = a.login_name /\ p.login_name = a.login_name
              /\ p.email = a.email
              /\ KeywordsCarried(i, {"default_role", "default_warehouse",
                     "default_namespace", "must_change_password", "disabled"})
         [] calls[i].fn = "create_role" -> p.name = calls[i].id
         [] calls[i].fn = "grant_role_to_user" ->
              p.role_name = a.role_name /\ p.users = <<a.user_name>>
         [] calls[i].fn = "create_warehouse" ->
              /\ p.name = calls[i].id
              /\ KeywordsCarried(i, {"warehouse_size", "auto_suspend",
                     "auto_resume", "initially_suspended",
                     "max_cluster_count", "min_cluster_count"})
         [] calls[i].fn = "create_database" ->
              /\ p.name = calls[i].id
              /\ KeywordsCarried(i, {"data_retention_time_in_days"})
         [] calls[i].fn = "create_schema" ->
              /\ p.database = a.database /\ p.name = a.schema_name
              /\ KeywordsCarried(i, {"data_retention_days", "is_managed"})
         [] calls[i].fn = "create_table" ->
              /\ p.database = a.database /\ p.schema = a.schema
              /\ p.name = a.table_name
              /\ "cluster_by" \in DOMAIN a.kw => p.cluster_bys = a.kw["cluster_by"]
              /\ Len(p.columns) = Len(a.columns)
              /\ \A j \in 1..Len(a.columns) :
                     /\ p.columns[j].name = a.columns[j]["name"]
                     /\ p.columns[j].type = a.columns[j]["type"]
         [] calls[i].fn = "grant_database_usage" ->
              /\ p.account_role_name = a.role
              /\ p.on_account_object.object_name = a.database_name
         [] calls[i].fn = "grant_warehouse_usage" ->
              /\ p.account_role_name = a.role
              /\ p.on_account_object.object_name = a.warehouse_name
         [] calls[i].fn = "grant_schema_usage" ->
              /\ p.account_role_name = a.role
              /\ p.on_schema.schema_name.parts[1] = a.database_name
              /\ p.on_schema.schema_name.parts[3] = a.schema_name
         [] calls[i].fn = "grant_table_select" ->
              /\ p.account_role_name = a.role
              /\ p.on_schema_object.all.in_schema.parts[1] = a.database_name
              /\ p.on_schema_object.all.in_schema.parts[3] = a.schema_name

\* The literal a nullable flag is written as.
Written(b) == IF b THEN "true" ELSE "false"

\* A given comment is the declaration's comment, and a given nullable string
\* is the one the declaration's flag is written as.
GivenUnchanged(i) ==
    /\ calls[i].fn \in TakesComment /\ CommentArg(i) # None =>
          DeclOf(i).props.comment = CommentArg(i)[1]
    /\ calls[i].fn = "create_table" =>
          \A j \in 1..Len(calls[i].args.columns) :
              "nullable" \in DOMAIN calls[i].args.columns[j] =>
                  Written(DeclOf(i).props.columns[j].nullable)
                      = calls[i].args.columns[j]["nullable"]

\* A given comment is the declaration's comment unless it is empty, and a
\* given nullable string is carried as the flag (string = "true").
GivenCoerced(i) ==
    /\ calls[i].fn \in TakesComment /\ CommentArg(i) # None =>
          DeclOf(i).props.comment =
              IF CommentArg(i) = Some("")
              THEN "Managed by Pulumi - " \o environment
              ELSE CommentArg(i)[1]
    /\ calls[i].fn = "create_table" =>
          \A j \in 1..Len(calls[i].args.columns) :
              "nullable" \in DOMAIN calls[i].args.columns[j] =>
                  DeclOf(i).props.columns[j].nullable
                      = (calls[i].args.columns[j]["nullable"] = "true")

C10_CommentVerbatimOrStamp ==
    \A i \in DOMAIN calls :
        LET stamp == "Managed by Pulumi - " \o environment IN
        /\ calls[i].fn \in AlwaysStamped =>
              /\ "comment" \notin DOMAIN calls[i].args.kw
              /\ DeclOf(i).props.comment = stamp
        /\ calls[i].fn \in TakesComment =>
              DeclOf(i).props.comment =
                  IF CommentArg(i) \in {None, Some("")}
                  THEN stamp
                  ELSE CommentArg(i)[1]

C10_Witness ==
    \E i \in CallsOf({"create_schema"}) :
        /\ calls[i].args.kw = [comment |-> Some(""), is_managed |-> TRUE]
        /\ cfg = Some("staging")
        /\ DeclOf(i).props.comment = "Managed by Pulumi - staging"

====
